---------------------------- MODULE Spec2Model ----------------------------
(***************************************************************************)
(* Fenny financial assistant backend: tool registry, tool executor, stock  *)
(* and currency tools, session store and the /api/chat, /api/clear and     *)
(* /api/health handlers, as a state machine.                               *)
(*                                                                         *)
(* Python strings are TLA+ strings (TLC treats them as sequences of        *)
(* one-character strings: Len, SubSeq and \o apply).  Python dicts are     *)
(* functions whose DOMAIN is the set of keys.  A Python scalar is a tagged *)
(* record (see PyStr, PyInt, PyNone) so that values of different Python    *)
(* types can be compared.                                                  *)
(***************************************************************************)
EXTENDS Integers, Sequences, FiniteSets, TLC

VARIABLES
    tool_registry,    \* main.py global: [ok |-> is not None, tools |-> names in insertion order]
    execution_graph,  \* main.py global: TRUE iff the graph was built (is not None)
    finance_llm,      \* main.py global: TRUE iff FinanceLLM() was constructed
    api_key,          \* CurrencyExchangeTool.api_key is set (EXCHANGE_RATE_API_KEY)
    sessions,         \* SessionManager.sessions: session id -> Session
    uuid_count,       \* number of identifiers uuid.uuid4() has handed out
    now,              \* datetime.utcnow(), in hours
    inflight,         \* the chat requests the event loop holds: request -> coroutine
    call              \* the last operation: its inputs, what it invoked, its result

vars == <<tool_registry, execution_graph, finance_llm, api_key,
          sessions, uuid_count, now, inflight, call>>

---------------------------------------------------------------------------
(* Strings *)

Letters == "abcdefghijklmnopqrstuvwxyz"
LETTERS == "ABCDEFGHIJKLMNOPQRSTUVWXYZ"
Digits == "0123456789"

\* The characters of alphabet
CharsOf(alphabet) == {SubSeq(alphabet, i, i) : i \in 1..Len(alphabet)}

\* The position of c in alphabet
IndexOf(c, alphabet) == CHOOSE i \in 1..Len(alphabet) : SubSeq(alphabet, i, i) = c

\* lower-case letter -> upper-case letter, and back
ToUpper == [c \in CharsOf(Letters) |-> SubSeq(LETTERS, IndexOf(c, Letters), IndexOf(c, Letters))]
ToLower == [c \in CharsOf(LETTERS) |-> SubSeq(Letters, IndexOf(c, LETTERS), IndexOf(c, LETTERS))]
DigitValue == [c \in CharsOf(Digits) |-> IndexOf(c, Digits) - 1]

UpperChar(c) == IF c \in DOMAIN ToUpper THEN ToUpper[c] ELSE c

LowerChar(c) == IF c \in DOMAIN ToLower THEN ToLower[c] ELSE c

RECURSIVE Upper(_)
\* str.upper()
Upper(s) == IF Len(s) = 0 THEN "" ELSE UpperChar(SubSeq(s, 1, 1)) \o Upper(SubSeq(s, 2, Len(s)))

RECURSIVE Lower(_)
\* str.lower()
Lower(s) == IF Len(s) = 0 THEN "" ELSE LowerChar(SubSeq(s, 1, 1)) \o Lower(SubSeq(s, 2, Len(s)))

RECURSIVE Strip(_)
\* str.strip(): leading and trailing blanks removed
Strip(s) ==
    IF Len(s) = 0 THEN ""
    ELSE IF SubSeq(s, 1, 1) = " " THEN Strip(SubSeq(s, 2, Len(s)))
    ELSE IF SubSeq(s, Len(s), Len(s)) = " " THEN Strip(SubSeq(s, 1, Len(s) - 1))
    ELSE s

\* needle in hay
Contains(needle, hay) ==
    \E i \in 1..(Len(hay) - Len(needle) + 1) : SubSeq(hay, i, i + Len(needle) - 1) = needle

IsDigits(s) == Len(s) > 0 /\ \A i \in 1..Len(s) : SubSeq(s, i, i) \in DOMAIN DigitValue

RECURSIVE Replace(_, _, _)
\* str.replace(old, new), old non-empty: leftmost non-overlapping occurrences
Replace(s, old, new) ==
    IF Len(s) < Len(old) THEN s
    ELSE IF SubSeq(s, 1, Len(old)) = old
         THEN new \o Replace(SubSeq(s, Len(old) + 1, Len(s)), old, new)
         ELSE SubSeq(s, 1, 1) \o Replace(SubSeq(s, 2, Len(s)), old, new)

RECURSIVE JoinComma(_)
\* ", ".join(names)
JoinComma(names) ==
    IF Len(names) = 0 THEN ""
    ELSE IF Len(names) = 1 THEN names[1]
    ELSE names[1] \o ", " \o JoinComma(Tail(names))

RECURSIVE NatStr(_)
\* decimal digits of a natural number
NatStr(n) ==
    IF n < 10 THEN SubSeq(Digits, n + 1, n + 1)
    ELSE NatStr(n \div 10) \o SubSeq(Digits, (n % 10) + 1, (n % 10) + 1)

RECURSIVE DigitsVal(_)
\* value of a string of decimal digits
DigitsVal(s) ==
    IF Len(s) = 0 THEN 0
    ELSE 10 * DigitsVal(SubSeq(s, 1, Len(s) - 1)) + DigitValue[SubSeq(s, Len(s), Len(s))]

---------------------------------------------------------------------------
(* Python values *)

Million == 1000000
FracUnit == 100000

\* A non-negative number hi*10^6 + lo + frac/10^5 (0 <= lo < 10^6, 0 <= frac < 10^5):
\* a market capitalisation of 1.5e12 does not fit a 32-bit integer.
PyInt(hi, lo) == [tag |-> "int", s |-> "", hi |-> hi, lo |-> lo, frac |-> 0]
PyFloat(hi, lo, frac) == [tag |-> "float", s |-> "", hi |-> hi, lo |-> lo, frac |-> frac]
PyStr(s) == [tag |-> "str", s |-> s, hi |-> 0, lo |-> 0, frac |-> 0]
PyNone == [tag |-> "none", s |-> "", hi |-> 0, lo |-> 0, frac |-> 0]
NA == PyStr("N/A")

IsNum(x) == x.tag \in {"int", "float"}

\* a == b of two Python scalars: numbers compare by value, 1 == 1.0
PyEq(a, b) ==
    IF IsNum(a) /\ IsNum(b) THEN a.hi = b.hi /\ a.lo = b.lo /\ a.frac = b.frac
    ELSE a = b

\* bool(x) of a Python scalar
Truthy(x) ==
    IF x.tag = "str" THEN x.s # ""
    ELSE IF x.tag = "none" THEN FALSE
    ELSE x.hi # 0 \/ x.lo # 0 \/ x.frac # 0

\* {}
EmptyDict == [k \in {} |-> PyNone]

\* dict.get(key, default)
Get(d, key, default) == IF key \in DOMAIN d THEN d[key] ELSE default

\* float(x) succeeds: numbers, and strings that are decimal digits
FloatOk(x) == IsNum(x) \/ (x.tag = "str" /\ IsDigits(Strip(x.s)))

\* float(x), for FloatOk(x)
Float(x) ==
    IF IsNum(x) THEN PyFloat(x.hi, x.lo, x.frac)
    ELSE PyFloat(DigitsVal(Strip(x.s)) \div Million, DigitsVal(Strip(x.s)) % Million, 0)

\* str(e) of the exception float(x) raises, for ~FloatOk(x)
FloatError(x) ==
    IF x.tag = "str" THEN "could not convert string to float: '" \o x.s \o "'"
    ELSE "float() argument must be a string or a real number, not 'NoneType'"

\* The quotient q, with remainder rem out of den, rounded to the nearest integer.
\* An exact decimal tie goes to the even neighbour here; in the program it goes
\* where the binary double lies, so the inputs drawn below contain no tie.
RoundDiv(q, rem, den) ==
    IF 2 * rem > den \/ (2 * rem = den /\ q % 2 = 1) THEN q + 1 ELSE q

\* f"{x:.2f}" of a value given in hundredths
Fixed2(hundredths) ==
    NatStr(hundredths \div 100) \o "." \o NatStr((hundredths % 100) \div 10) \o NatStr(hundredths % 10)

\* round(x, 2) of a float below 10^6
Round2(x) ==
    LET h == RoundDiv(x.lo * 100 + x.frac \div 1000, x.frac % 1000, 1000)
    IN  PyFloat(0, h \div 100, (h % 100) * 1000)

\* round(x, 4) of a float below 10^5
Round4(x) ==
    LET t == RoundDiv(x.lo * 10000 + x.frac \div 10, x.frac % 10, 10)
    IN  PyFloat(0, t \div 10000, (t % 10000) * 10)

\* the integer part of a number, in decimal
WholeStr(x) ==
    IF x.hi = 0 THEN NatStr(x.lo) ELSE NatStr(x.hi) \o SubSeq(NatStr(Million + x.lo), 2, 7)

RECURSIVE DropZeros(_)
\* trailing zeros dropped, one digit kept
DropZeros(d) ==
    IF Len(d) > 1 /\ SubSeq(d, Len(d), Len(d)) = "0" THEN DropZeros(SubSeq(d, 1, Len(d) - 1)) ELSE d

\* str(x): a float is printed in its shortest form with at least one decimal
Str(x) ==
    IF x.tag = "str" THEN x.s
    ELSE IF x.tag = "none" THEN "None"
    ELSE IF x.tag = "int" THEN WholeStr(x)
    ELSE WholeStr(x) \o "." \o DropZeros(SubSeq(NatStr(FracUnit + x.frac), 2, 6))

---------------------------------------------------------------------------
(* StocksTool *)

\* ScaleMarketCap with the last branch lost: everything below 10^9 is in millions
ScaleMarketCap_m(m) ==
    LET above == IF m.lo > 0 \/ m.frac > 0 THEN 1 ELSE 0
    IN  IF m.hi >= Million
        THEN [hundredths |-> RoundDiv(m.hi \div 10000, (m.hi % 10000) * 2 + above, 20000),
              suffix |-> "T"]
        ELSE IF m.hi >= 1000
        THEN [hundredths |-> RoundDiv(m.hi \div 10, (m.hi % 10) * 2 + above, 20),
              suffix |-> "B"]
        ELSE [hundredths |-> RoundDiv(m.hi * 100 + m.lo \div 10000,
                                      (m.lo % 10000) * 2 + (IF m.frac > 0 THEN 1 ELSE 0), 20000),
              suffix |-> "M"]

\* StocksTool._format_market_cap: the value divided by its unit, in hundredths,
\* and the unit's suffix
ScaleMarketCap(m) ==
    LET above == IF m.lo > 0 \/ m.frac > 0 THEN 1 ELSE 0
    IN  IF m.hi >= Million
        THEN [hundredths |-> RoundDiv(m.hi \div 10000, (m.hi % 10000) * 2 + above, 20000),
              suffix |-> "T"]
        ELSE IF m.hi >= 1000
        THEN [hundredths |-> RoundDiv(m.hi \div 10, (m.hi % 10) * 2 + above, 20),
              suffix |-> "B"]
        ELSE IF m.hi >= 1
        THEN [hundredths |-> RoundDiv(m.hi * 100 + m.lo \div 10000,
                                      (m.lo % 10000) * 2 + (IF m.frac > 0 THEN 1 ELSE 0), 20000),
              suffix |-> "M"]
        ELSE [hundredths |-> RoundDiv(m.lo * 100 + m.frac \div 1000, m.frac % 1000, 1000),
              suffix |-> ""]

\* StocksTool._format_market_cap
format_market_cap(market_cap) ==
    IF FloatOk(market_cap)
    THEN "$" \o Fixed2(ScaleMarketCap(Float(market_cap)).hundredths)
             \o ScaleMarketCap(Float(market_cap)).suffix
    ELSE Str(market_cap)

\* The payload of the except branch of StocksTool.run
StockError(ticker, details) ==
    [error |-> PyStr("Could not retrieve data for " \o ticker
                     \o ". Please check the ticker symbol and try again."),
     details |-> PyStr(details)]

\* StocksTool.run(ticker).  market is what yf.Ticker(ticker).info does:
\* [raises |-> BOOLEAN, exc |-> str(e), info |-> the info dict]
StocksTool_run(ticker, market) ==
    IF ticker.tag # "str"
    THEN StockError(Str(ticker), "'NoneType' object has no attribute 'upper'")
    ELSE
    LET t == Strip(Upper(ticker.s))
        info == market.info
        current_price == Get(info, "currentPrice", NA)
        market_cap == Get(info, "marketCap", NA)
    IN  IF market.raises THEN StockError(t, market.exc)
        ELSE IF current_price # NA /\ ~FloatOk(current_price)
        THEN StockError(t, FloatError(current_price))
        ELSE [ticker |-> PyStr(t),
              name |-> Get(info, "shortName", PyStr(t)),
              current_price |-> IF current_price # NA THEN Round2(Float(current_price)) ELSE NA,
              currency |-> Get(info, "currency", PyStr("USD")),
              market_open |-> Get(info, "regularMarketOpen", NA),
              day_range |-> PyStr(Str(Get(info, "dayLow", NA)) \o " - "
                                  \o Str(Get(info, "dayHigh", NA))),
              volume |-> Get(info, "volume", NA),
              market_cap |-> IF market_cap # NA THEN PyStr(format_market_cap(market_cap)) ELSE NA,
              pe_ratio |-> Get(info, "trailingPE", NA),
              dividend_yield |-> Get(info, "dividendYield", NA)]

---------------------------------------------------------------------------
(* CurrencyExchangeTool *)

\* The two envelopes a tool builds by hand
ErrorEnvelope(message) == [status |-> PyStr("error"), message |-> PyStr(message)]
SuccessEnvelope(output) == [status |-> PyStr("success"), output |-> output]

NetworkError == ErrorEnvelope(
    "Network error connecting to currency service. Please check your internet connection.")
UnexpectedError == ErrorEnvelope("Unexpected error processing currency request.")

\* The provider's answer is not a success: both branches of run report it alike
ApiError(data) ==
    ErrorEnvelope("API error: " \o Str(Get(data, "error-type", PyStr("Unknown API error"))))

\* run without the test of the credential: the provider is always asked
CurrencyExchangeTool_run_m(key, base, target, amount, http) ==
    [net |-> 1,
     ret |-> IF http.kind = "network_error" THEN NetworkError
             ELSE IF Get(http.data, "result", PyNone) # PyStr("success") THEN ApiError(http.data)
             ELSE SuccessEnvelope(http.data)]

\* CurrencyExchangeTool.run(base, target, amount).  key: self.api_key is set.
\* http is what requests.get(url) followed by raise_for_status() and json() does:
\* [kind |-> "network_error" | "json", data |-> the decoded body].
\* The result is [ret |-> the returned dict, net |-> the number of requests.get calls].
CurrencyExchangeTool_run(key, base, target, amount, http) ==
    LET data == http.data IN
    IF ~key
    THEN [ret |-> ErrorEnvelope("Currency API key not configured. Please set EXCHANGE_RATE_API_KEY environment variable."),
          net |-> 0]
    ELSE IF base.tag # "str" \/ ~FloatOk(amount)
    THEN [ret |-> UnexpectedError, net |-> 0]
    ELSE IF ~Truthy(target)
    THEN [net |-> 1,
          ret |-> IF http.kind = "network_error" THEN NetworkError
                  ELSE IF Get(data, "result", PyNone) # PyStr("success") THEN ApiError(data)
                  ELSE IF ~({"conversion_rates", "base_code"} \subseteq DOMAIN data)
                       \/ \E k \in DOMAIN data["conversion_rates"] :
                              ~IsNum(data["conversion_rates"][k])
                  THEN UnexpectedError
                  ELSE SuccessEnvelope(
                           [base |-> data["base_code"],
                            rates |-> [k \in DOMAIN data["conversion_rates"] |->
                                          Round4(Float(data["conversion_rates"][k]))],
                            timestamp |-> Get(data, "time_last_update_utc", NA)])]
    ELSE IF target.tag # "str"
    THEN [ret |-> UnexpectedError, net |-> 0]
    ELSE [net |-> 1,
          ret |-> IF http.kind = "network_error" THEN NetworkError
                  ELSE IF Get(data, "result", PyNone) # PyStr("success") THEN ApiError(data)
                  ELSE IF ~({"base_code", "target_code", "conversion_result", "conversion_rate"}
                                \subseteq DOMAIN data)
                       \/ ~IsNum(data["conversion_result"]) \/ ~IsNum(data["conversion_rate"])
                  THEN UnexpectedError
                  ELSE SuccessEnvelope(
                           [base |-> data["base_code"],
                            target |-> data["target_code"],
                            amount |-> Float(amount),
                            converted_amount |-> Round4(Float(data["conversion_result"])),
                            rate |-> Round4(Float(data["conversion_rate"])),
                            timestamp |-> Get(data, "time_last_update_utc", NA)])]

---------------------------------------------------------------------------
(* ToolRegistry *)

\* register_tools with the two registrations in the other order
register_tools_m(stock_raises, currency_raises) ==
    (IF currency_raises THEN <<>> ELSE <<"currency_exchange">>)
    \o (IF stock_raises THEN <<>> ELSE <<"stock_price">>)

\* ToolRegistry._register_tools: the names registered, in insertion order, when
\* the construction of a tool may raise
register_tools(stock_raises, currency_raises) ==
    (IF stock_raises THEN <<>> ELSE <<"stock_price">>)
    \o (IF currency_raises THEN <<>> ELSE <<"currency_exchange">>)

\* ToolRegistry.has_tool
has_tool(tools, tool_name) == \E i \in 1..Len(tools) : tools[i] = tool_name

\* ToolRegistry.get_tool is not None
get_tool(tools, tool_name) == \E i \in 1..Len(tools) : tools[i] = tool_name

---------------------------------------------------------------------------
(* ToolNode *)

\* tool.run(**tool_input) binds its keyword arguments: str(e) of the TypeError
\* the call raises, "" when the arguments bind
BindError(tool_name, tool_input) ==
    IF tool_name = "stock_price"
    THEN IF \E k \in DOMAIN tool_input : k # "ticker"
         THEN "StocksTool.run() got an unexpected keyword argument '"
              \o (CHOOSE k \in DOMAIN tool_input : k # "ticker") \o "'"
         ELSE IF "ticker" \notin DOMAIN tool_input
         THEN "StocksTool.run() missing 1 required positional argument: 'ticker'"
         ELSE ""
    ELSE IF \E k \in DOMAIN tool_input : k \notin {"base", "target", "amount"}
         THEN "CurrencyExchangeTool.run() got an unexpected keyword argument '"
              \o (CHOOSE k \in DOMAIN tool_input : k \notin {"base", "target", "amount"}) \o "'"
         ELSE ""

\* tool.run(**tool_input) once the arguments are bound: [ret, net]
RunTool(key, tool_name, tool_input, world) ==
    IF tool_name = "stock_price"
    THEN [ret |-> StocksTool_run(tool_input["ticker"], world.market), net |-> 0]
    ELSE CurrencyExchangeTool_run(key,
                                  Get(tool_input, "base", PyStr("USD")),
                                  Get(tool_input, "target", PyNone),
                                  Get(tool_input, "amount", PyFloat(0, 1, 0)),
                                  world.http)

\* execute_tool without its try/except: what tool.run raises leaves execute_tool
execute_tool_m(tools, key, tool_name, tool_input, world) ==
    IF ~get_tool(tools, tool_name)
    THEN [raised |-> FALSE, ran |-> <<>>, net |-> 0,
          ret |-> [status |-> PyStr("error"),
                   message |-> PyStr("Tool '" \o tool_name \o "' not found. Available tools: "
                                     \o JoinComma(tools))]]
    ELSE IF BindError(tool_name, tool_input) # ""
    THEN [raised |-> TRUE, ran |-> <<tool_name>>, net |-> 0, ret |-> EmptyDict]
    ELSE [raised |-> FALSE, ran |-> <<tool_name>>,
          net |-> RunTool(key, tool_name, tool_input, world).net,
          ret |-> [status |-> PyStr("success"),
                   tool |-> PyStr(tool_name),
                   input |-> tool_input,
                   output |-> RunTool(key, tool_name, tool_input, world).ret]]

\* ToolNode.execute_tool(tool_name, tool_input) over the registry's tools.
\* [raised |-> an exception left execute_tool, ret |-> the envelope returned,
\*  ran |-> the tools whose run was called, net |-> requests.get calls made]
execute_tool(tools, key, tool_name, tool_input, world) ==
    IF ~get_tool(tools, tool_name)
    THEN [raised |-> FALSE, ran |-> <<>>, net |-> 0,
          ret |-> [status |-> PyStr("error"),
                   message |-> PyStr("Tool '" \o tool_name \o "' not found. Available tools: "
                                     \o JoinComma(tools))]]
    ELSE IF BindError(tool_name, tool_input) # ""
    THEN [raised |-> FALSE, ran |-> <<tool_name>>, net |-> 0,
          ret |-> [status |-> PyStr("error"),
                   tool |-> PyStr(tool_name),
                   message |-> PyStr("Error executing tool: " \o BindError(tool_name, tool_input))]]
    ELSE [raised |-> FALSE, ran |-> <<tool_name>>,
          net |-> RunTool(key, tool_name, tool_input, world).net,
          ret |-> [status |-> PyStr("success"),
                   tool |-> PyStr(tool_name),
                   input |-> tool_input,
                   output |-> RunTool(key, tool_name, tool_input, world).ret]]

---------------------------------------------------------------------------
(* Session and SessionManager *)

SESSION_EXPIRY_HOURS == 24

\* Session.__init__ at time t.  added is a history field (not in the program):
\* the arguments of the add_files calls made on this session, in order.
Session(t) ==
    [created_at |-> t, last_active |-> t, file_count |-> 0, messages |-> <<>>, added |-> <<>>]

\* update_activity that renews the session: the expiry period starts again
update_activity_m(session, t) == [session EXCEPT !.last_active = t, !.created_at = t]

\* Session.update_activity
update_activity(session, t) == [session EXCEPT !.last_active = t]

\* add_files enforcing the upload limit itself: the count saturates at 3
add_files_m(session, num_files, t) ==
    update_activity([session EXCEPT !.file_count = IF session.file_count + num_files > 3 THEN 3
                                                   ELSE session.file_count + num_files,
                                    !.added = Append(session.added, num_files)], t)

\* Session.add_files(num_files): the session afterwards; its file_count is returned
add_files(session, num_files, t) ==
    update_activity([session EXCEPT !.file_count = session.file_count + num_files,
                                    !.added = Append(session.added, num_files)], t)

\* Session.get_file_count
get_file_count(session) == session.file_count

\* str(uuid.uuid4()): the n-th identifier handed out
Uuid(n) == "s" \o NatStr(n)

\* SessionManager.create_session: the store afterwards, with the session under id
create_session(store, id, t) ==
    [i \in DOMAIN store \cup {id} |-> IF i = id THEN Session(t) ELSE store[i]]

\* delete_session without the membership test: an absent identifier empties the store
delete_session_m(store, session_id) ==
    IF session_id \in DOMAIN store
    THEN [i \in DOMAIN store \ {session_id} |-> store[i]]
    ELSE EmptyDict

\* SessionManager.delete_session
delete_session(store, session_id) ==
    IF session_id \in DOMAIN store
    THEN [i \in DOMAIN store \ {session_id} |-> store[i]]
    ELSE store

\* The expiry test with >=: a session is expired from created_at + H on
Expired_m(session, t) == t >= session.created_at + SESSION_EXPIRY_HOURS

\* The expiry test of get_session and cleanup_expired_sessions
Expired(session, t) == t > session.created_at + SESSION_EXPIRY_HOURS

\* get_session with a sliding expiry: the period counts from the last activity
get_session_m(store, session_id, t) ==
    IF session_id \notin DOMAIN store THEN [found |-> FALSE, store |-> store]
    ELSE IF t > store[session_id].last_active + SESSION_EXPIRY_HOURS
    THEN [found |-> FALSE, store |-> delete_session(store, session_id)]
    ELSE [found |-> TRUE,
          store |-> [store EXCEPT ![session_id] = update_activity(store[session_id], t)]]

\* SessionManager.get_session: [found |-> a session is returned, store |-> the
\* store afterwards]; the session returned is store[session_id]
get_session(store, session_id, t) ==
    IF session_id \notin DOMAIN store THEN [found |-> FALSE, store |-> store]
    ELSE IF Expired(store[session_id], t)
    THEN [found |-> FALSE, store |-> delete_session(store, session_id)]
    ELSE [found |-> TRUE,
          store |-> [store EXCEPT ![session_id] = update_activity(store[session_id], t)]]

\* SessionManager.cleanup_expired_sessions
cleanup_expired_sessions(store, t) ==
    [i \in {k \in DOMAIN store : ~Expired(store[k], t)} |-> store[i]]

---------------------------------------------------------------------------
(* The chat handler: validation *)

MAX_FILES == 3                   \* main.py: "> 3  # Hardcoded for safety"
MAX_FILE_BYTES == 5242880        \* main.py: 5 * 1024 * 1024

\* "Validate message" without strip(): only the empty message is refused
MessageError_m(message) == IF message = "" THEN "Message cannot be empty" ELSE ""

\* "Validate message": the detail of the HTTPException raised, "" when there is none
MessageError(message) == IF Strip(message) = "" THEN "Message cannot be empty" ELSE ""

RECURSIVE AfterLastDot(_)
\* filename.split(".")[-1]
AfterLastDot(name) ==
    IF ~Contains(".", name) THEN name
    ELSE AfterLastDot(SubSeq(name, 2, Len(name)))

\* allowed_exts of the chat handler
allowed_exts == {".pdf", ".xls", ".xlsx", ".txt"}

RECURSIVE FirstFileError(_)
\* The loop over the uploaded files: the detail of the first HTTPException
\* raised, "" when every file passes.  A file is [size, filename].
FirstFileError(files) ==
    IF Len(files) = 0 THEN ""
    ELSE IF Head(files).size > MAX_FILE_BYTES
    THEN "File " \o Head(files).filename \o " exceeds size limit of 5MB"
    ELSE IF Lower(AfterLastDot(Head(files).filename)) \notin allowed_exts
    THEN "File type ." \o Lower(AfterLastDot(Head(files).filename))
         \o " not allowed. Only PDF, Excel, and TXT files are permitted."
    ELSE FirstFileError(Tail(files))

\* A handler without "Check file limits": every upload is accepted
FileError_m(session, files) == ""

\* "Check file limits": the detail of the HTTPException raised, "" when the
\* upload is accepted (or there is none)
FileError(session, files) ==
    IF Len(files) = 0 THEN ""
    ELSE IF get_file_count(session) + Len(files) > MAX_FILES
    THEN "Cannot upload more than 3 files in a conversation"
    ELSE FirstFileError(files)

\* ResolveSession that gives a request without identifier a session of the
\* store when there is one, instead of a new one
ResolveSession_m(store, session_id, fresh, t) ==
    IF session_id = "" /\ DOMAIN store # {}
    THEN [store |-> store, sid |-> CHOOSE i \in DOMAIN store : TRUE, created |-> FALSE]
    ELSE IF session_id = ""
    THEN [store |-> create_session(store, fresh, t), sid |-> fresh, created |-> TRUE]
    ELSE IF get_session(store, session_id, t).found
    THEN [store |-> get_session(store, session_id, t).store, sid |-> session_id,
          created |-> FALSE]
    ELSE [store |-> create_session(get_session(store, session_id, t).store, fresh, t),
          sid |-> fresh, created |-> TRUE]

\* "Get or create session": the store afterwards, the identifier of the
\* session of this request, and whether create_session was called.
\* session_id "" stands for a missing (None) or empty form field.
ResolveSession(store, session_id, fresh, t) ==
    IF session_id = ""
    THEN [store |-> create_session(store, fresh, t), sid |-> fresh, created |-> TRUE]
    ELSE IF get_session(store, session_id, t).found
    THEN [store |-> get_session(store, session_id, t).store, sid |-> session_id,
          created |-> FALSE]
    ELSE [store |-> create_session(get_session(store, session_id, t).store, fresh, t),
          sid |-> fresh, created |-> TRUE]

---------------------------------------------------------------------------
(* The chat handler: intent routing and reply composition *)

\* The emoji that open the replies, in ASCII
Warn == "(!) "

INTENT_TICKERS == <<"AAPL", "MSFT", "TSLA", "GOOG", "AMZN", "NVDA">>
possible_tickers == <<"AAPL", "MSFT", "TSLA", "GOOG", "AMZN", "NVDA", "META", "IBM", "INTC", "AMD">>
INTENT_CODES == <<"USD", "EUR", "JPY", "GBP", "CAD", "AUD", "INR">>
\* currency_codes with its first two codes exchanged
currency_codes_m == <<"EUR", "USD", "JPY", "GBP", "CAD", "AUD", "CHF", "CNY", "INR">>
currency_codes == <<"USD", "EUR", "JPY", "GBP", "CAD", "AUD", "CHF", "CNY", "INR">>

\* any(x in text for x in needles)
AnyIn(needles, text) == \E i \in 1..Len(needles) : Contains(needles[i], text)

\* [x for x in needles if x in text]
RECURSIVE Matching(_, _)
Matching(needles, text) ==
    IF Len(needles) = 0 THEN <<>>
    ELSE (IF Contains(Head(needles), text) THEN <<Head(needles)>> ELSE <<>>)
         \o Matching(Tail(needles), text)

\* The stock condition with the tickers matched against the raw message
StockIntent_m(message) ==
    Contains("stock", Lower(message)) \/ AnyIn(INTENT_TICKERS, message)

\* The condition of the "Stock price check" branch
StockIntent(message) ==
    Contains("stock", Lower(message)) \/ AnyIn(INTENT_TICKERS, Upper(message))

\* The condition of the "Currency conversion" branch
CurrencyIntent(message) ==
    \/ Contains("currency", Lower(message))
    \/ Contains("exchange", Lower(message))
    \/ AnyIn(INTENT_CODES, Upper(message))

\* The if / elif chain with its two conditions in the other order
Route_m(message) ==
    IF CurrencyIntent(message) THEN "currency"
    ELSE IF StockIntent(message) THEN "stock"
    ELSE "none"

\* The branch of the if / elif chain that runs: the first whose condition holds
Route(message) ==
    IF StockIntent(message) THEN "stock"
    ELSE IF CurrencyIntent(message) THEN "currency"
    ELSE "none"

\* next((t for t in possible_tickers if t in message.upper()), "AAPL")
ExtractTicker(message) ==
    IF Matching(possible_tickers, Upper(message)) = <<>> THEN "AAPL"
    ELSE Head(Matching(possible_tickers, Upper(message)))

\* base: currencies[0], "USD" when there is none
ExtractBase(message) ==
    IF Len(Matching(currency_codes, Upper(message))) > 0
    THEN Matching(currency_codes, Upper(message))[1] ELSE "USD"

\* target: currencies[1], "EUR" when there are fewer than two
ExtractTarget(message) ==
    IF Len(Matching(currency_codes, Upper(message))) > 1
    THEN Matching(currency_codes, Upper(message))[2] ELSE "EUR"

RECURSIVE Split(_)
\* message.split(): the words between blanks
Split(text) ==
    IF Strip(text) = "" THEN <<>>
    ELSE LET t == Strip(text)
             n == IF Contains(" ", t)
                  THEN CHOOSE i \in 1..Len(t) :
                           SubSeq(t, i, i) = " " /\ ~Contains(" ", SubSeq(t, 1, i - 1))
                  ELSE Len(t) + 1
         IN  <<SubSeq(t, 1, n - 1)>> \o Split(SubSeq(t, n, Len(t)))

\* SUPERSCRIPT TWO, in ASCII: a character str.isdigit() accepts and float() rejects
SuperTwo == "^"

\* s.isdigit(): s is not empty and every character is a digit, superscripts included
IsDigit(s) ==
    Len(s) > 0 /\ \A i \in 1..Len(s) : SubSeq(s, i, i) \in DOMAIN DigitValue \cup {SuperTwo}

\* word.replace(".", "", 1).isdigit()
IsAmount(word) ==
    IF Contains(".", word)
    THEN LET d == CHOOSE i \in 1..Len(word) :
                      SubSeq(word, i, i) = "." /\ ~Contains(".", SubSeq(word, 1, i - 1))
         IN  IsDigit(SubSeq(word, 1, d - 1) \o SubSeq(word, d + 1, Len(word)))
    ELSE IsDigit(word)

RECURSIVE PadRight(_, _)
PadRight(digits, n) == IF Len(digits) >= n THEN SubSeq(digits, 1, n) ELSE PadRight(digits \o "0", n)

\* float(word), for IsAmount(word) with at most five decimals
ParseAmount(word) ==
    IF Contains(".", word)
    THEN LET d == CHOOSE i \in 1..Len(word) : SubSeq(word, i, i) = "."
         IN  PyFloat(DigitsVal(SubSeq(word, 1, d - 1)) \div Million,
                     DigitsVal(SubSeq(word, 1, d - 1)) % Million,
                     DigitsVal(PadRight(SubSeq(word, d + 1, Len(word)), 5)))
    ELSE PyFloat(DigitsVal(word) \div Million, DigitsVal(word) % Million, 0)

RECURSIVE AmountWord(_)
\* The word at which the loop over message.split() stops: the first that
\* IsAmount holds of, "" when there is none
AmountWord(words) ==
    IF words = <<>> THEN ""
    ELSE IF IsAmount(Head(words)) THEN Head(words)
    ELSE AmountWord(Tail(words))

\* float(word) raises ValueError in "Extract amount if mentioned"
AmountRaises(message) == Contains(SuperTwo, AmountWord(Split(message)))

\* "Extract amount if mentioned": the first word that is a number, else 1.0
ExtractAmount(message) ==
    IF AmountWord(Split(message)) = "" THEN PyFloat(0, 1, 0)
    ELSE ParseAmount(AmountWord(Split(message)))

RECURSIVE Commas(_)
\* the thousands separators of the "," format
Commas(digits) ==
    IF Len(digits) <= 3 THEN digits
    ELSE Commas(SubSeq(digits, 1, Len(digits) - 3)) \o ","
         \o SubSeq(digits, Len(digits) - 2, Len(digits))

\* f"{x:,.<places>f}" of a float x, places = 2 or 4
CommaFixed(x, places) ==
    LET scale == IF places = 2 THEN 1000 ELSE 10
        unit == FracUnit \div scale
        r == RoundDiv(x.frac \div scale, x.frac % scale, scale)
        whole == IF r = unit
                 THEN (IF x.lo + 1 = Million THEN PyInt(x.hi + 1, 0) ELSE PyInt(x.hi, x.lo + 1))
                 ELSE PyInt(x.hi, x.lo)
    IN  Commas(WholeStr(whole)) \o "." \o SubSeq(NatStr(unit + (r % unit)), 2, places + 1)

\* The reply of the stock branch to the executor's envelope
StockReply(tool_result, ticker) ==
    IF Get(tool_result, "status", PyNone) = PyStr("success")
    THEN LET tool_output == Get(tool_result, "output", EmptyDict) IN
         IF Get(tool_output, "status", PyNone) = PyStr("success")
         THEN LET stock_data == Get(tool_output, "output", EmptyDict) IN
              IF "error" \in DOMAIN stock_data
              THEN Warn \o Str(stock_data["error"])
              ELSE "**" \o Str(Get(stock_data, "name", PyStr(ticker)))
                   \o " (" \o Str(Get(stock_data, "ticker", PyStr(ticker))) \o ")**\n\n"
                   \o "Current Price: **$" \o Str(Get(stock_data, "current_price", NA))
                   \o " " \o Str(Get(stock_data, "currency", PyStr("USD"))) \o "**\n"
                   \o "Today's Range: " \o Str(Get(stock_data, "day_range", NA)) \o "\n"
                   \o "Market Cap: " \o Str(Get(stock_data, "market_cap", NA))
                   \o (IF ~PyEq(Get(stock_data, "pe_ratio", NA), NA)
                       THEN "\nP/E Ratio: " \o Str(Get(stock_data, "pe_ratio", NA))
                       ELSE "")
         ELSE Warn \o "Error checking stock price: "
              \o Str(Get(tool_output, "message", PyStr("Unknown error")))
    ELSE Warn \o "Error checking stock price: "
         \o Str(Get(tool_result, "message", PyStr("Unknown error")))

\* The currency branch formats with ",.4f": a value that is no number raises
CurrencyReplyRaises(tool_result) ==
    /\ Get(tool_result, "status", PyNone) = PyStr("success")
    /\ Get(tool_result.output, "status", PyNone) = PyStr("success")
    /\ LET currency_data == Get(tool_result.output, "output", EmptyDict) IN
       /\ "error" \notin DOMAIN currency_data
       /\ {"base", "target"} \subseteq DOMAIN currency_data
       /\ \/ ~IsNum(Get(currency_data, "converted_amount", NA))
          \/ ~IsNum(Get(currency_data, "rate", NA))

\* The reply of the currency branch to the executor's envelope
CurrencyReply(tool_result, amount) ==
    IF Get(tool_result, "status", PyNone) = PyStr("success")
    THEN LET tool_output == Get(tool_result, "output", EmptyDict) IN
         IF Get(tool_output, "status", PyNone) = PyStr("success")
         THEN LET currency_data == Get(tool_output, "output", EmptyDict) IN
              IF "error" \in DOMAIN currency_data
              THEN Warn \o Str(currency_data["error"])
              ELSE IF "base" \notin DOMAIN currency_data \/ "target" \notin DOMAIN currency_data
              THEN Warn \o "Error: Incomplete data from currency service"
              ELSE "**Currency Exchange**\n\n"
                   \o CommaFixed(amount, 2) \o " **" \o Str(currency_data["base"]) \o "** = **"
                   \o CommaFixed(Get(currency_data, "converted_amount", NA), 4)
                   \o " " \o Str(currency_data["target"]) \o "**\n"
                   \o "Exchange Rate: 1 " \o Str(currency_data["base"]) \o " = "
                   \o CommaFixed(Get(currency_data, "rate", NA), 4)
                   \o " " \o Str(currency_data["target"])
         ELSE Warn \o "Error checking currency rates: "
              \o Str(Get(tool_output, "message", PyStr("Unknown error")))
    ELSE Warn \o "Error checking currency rates: "
         \o Str(Get(tool_result, "message", PyStr("Unknown error")))

StockToolDown ==
    "I'm having trouble accessing my stock price tool right now. Please try again later."
CurrencyToolDown ==
    "I'm having trouble accessing my currency exchange tool right now. Please try again later."
LlmDown ==
    "I'm having trouble accessing my financial knowledge base. Please try again later or ask a different question."
LlmFailed ==
    "I encountered an issue while processing your request. Please try asking your question in a different way."

\* get_finance_prompt(chat_history) for the history the handler builds:
\* the system entry and the current message
get_finance_prompt(message) ==
    "[INST] <<SYS>>\n"
    \o "You are a financial expert assistant named Fenny. You provide accurate, helpful information about finance, investing, and financial documents. Be concise and professional."
    \o "\n<</SYS>>\n\n" \o message \o " [/INST]\n"

\* The clean-up of the LLM's completion
CleanCompletion(text) == Strip(Replace(Replace(text, "Action:", ""), "Action Input:", ""))

\* The guard without has_tool: a missing tool is looked up all the same
ToolAvailable_m(registry, graph, tool_name) == registry.ok /\ graph

\* The tool named is usable: the guard of both tool branches
ToolAvailable(registry, graph, tool_name) ==
    registry.ok /\ graph /\ has_tool(registry.tools, tool_name)

\* What a branch that calls no tool leaves behind
NoToolRun(bot_response) ==
    [bot_response |-> bot_response, raised |-> FALSE, ran |-> <<>>, tool_input |-> EmptyDict,
     tool_result |-> EmptyDict, net |-> 0]

\* The if / elif chain of the chat handler ("Stock price check", "Currency
\* conversion"): bot_response afterwards (PyNone while it is None), whether an
\* exception left the chain, the tools run and the envelope the executor returned.
ToolBranches(message, registry, graph, key, world) ==
    IF Route(message) = "stock"
    THEN IF ToolAvailable(registry, graph, "stock_price")
         THEN LET ticker == ExtractTicker(message)
                  ex == execute_tool(registry.tools, key, "stock_price",
                                     [ticker |-> PyStr(ticker)], world)
              IN  [bot_response |-> IF ex.raised THEN PyNone
                                    ELSE PyStr(StockReply(ex.ret, ticker)),
                   raised |-> ex.raised, ran |-> ex.ran,
                   tool_input |-> [ticker |-> PyStr(ticker)],
                   tool_result |-> ex.ret, net |-> ex.net]
         ELSE NoToolRun(PyStr(StockToolDown))
    ELSE IF Route(message) = "currency"
    THEN IF ToolAvailable(registry, graph, "currency_exchange") /\ AmountRaises(message)
         THEN [bot_response |-> PyNone, raised |-> TRUE, ran |-> <<>>,
               tool_input |-> EmptyDict, tool_result |-> EmptyDict, net |-> 0]
         ELSE IF ToolAvailable(registry, graph, "currency_exchange")
         THEN LET input == [base |-> PyStr(ExtractBase(message)),
                            target |-> PyStr(ExtractTarget(message)),
                            amount |-> ExtractAmount(message)]
                  ex == execute_tool(registry.tools, key, "currency_exchange", input, world)
                  raises == ex.raised \/ CurrencyReplyRaises(ex.ret)
              IN  [bot_response |-> IF raises THEN PyNone
                                    ELSE PyStr(CurrencyReply(ex.ret, ExtractAmount(message))),
                   raised |-> raises, ran |-> ex.ran, tool_input |-> input,
                   tool_result |-> ex.ret, net |-> ex.net]
         ELSE NoToolRun(PyStr(CurrencyToolDown))
    ELSE NoToolRun(PyNone)

\* "Use LLM for non-tool queries": the reply, and whether generate_response
\* was called.  world.llm is [raises, text]: what building the prompt and
\* calling finance_llm.generate_response does.
Fallback(bot_response, message, llm, world) ==
    IF bot_response # PyNone THEN [response |-> bot_response.s, llm_called |-> FALSE]
    ELSE IF ~llm THEN [response |-> LlmDown, llm_called |-> FALSE]
    ELSE IF world.llm.raises THEN [response |-> LlmFailed, llm_called |-> TRUE]
    ELSE [response |-> CleanCompletion(world.llm.text), llm_called |-> TRUE]

---------------------------------------------------------------------------
(* The environment: what the providers answer *)

\* stock.info of a listed company
AppleInfo ==
    [shortName |-> PyStr("Apple Inc."), currentPrice |-> PyFloat(0, 150, 25000),
     currency |-> PyStr("USD"), regularMarketOpen |-> PyFloat(0, 149, 50000),
     dayLow |-> PyFloat(0, 148, 10000), dayHigh |-> PyFloat(0, 151, 0),
     volume |-> PyInt(52, 164500), marketCap |-> PyInt(2300000, 0),
     trailingPE |-> PyFloat(0, 28, 50000), dividendYield |-> PyFloat(0, 0, 52000)]

\* What yf.Ticker(t).info does: it raises, it has no data, or it has some
Markets ==
    { [raises |-> TRUE, exc |-> "HTTP Error 404: Not Found", info |-> EmptyDict],
      [raises |-> FALSE, exc |-> "", info |-> EmptyDict],
      [raises |-> FALSE, exc |-> "", info |-> [trailingPegRatio |-> PyNone]],
      [raises |-> FALSE, exc |-> "", info |-> AppleInfo],
      [raises |-> FALSE, exc |-> "",
       info |-> [currentPrice |-> PyFloat(0, 99, 99600), marketCap |-> PyStr("unknown")]],
      [raises |-> FALSE, exc |-> "", info |-> [currentPrice |-> PyNone]] }

\* The quote fields of stock.info that StocksTool.run reads
InfoKeys == {"shortName", "currentPrice", "currency", "regularMarketOpen", "dayLow",
             "dayHigh", "volume", "marketCap", "trailingPE", "dividendYield"}

\* The provider has no data for the ticker
NoData(market) == market.raises \/ DOMAIN market.info \cap InfoKeys = {}

\* What requests.get(url), raise_for_status() and json() do
Https ==
    { [kind |-> "network_error", data |-> EmptyDict],
      [kind |-> "json", data |-> ("result" :> PyStr("error"))
                                  @@ ("error-type" :> PyStr("unsupported-code"))],
      [kind |-> "json", data |-> [result |-> PyStr("success")]],
      [kind |-> "json",
       data |-> [result |-> PyStr("success"), base_code |-> PyStr("USD"),
                 target_code |-> PyStr("EUR"), conversion_result |-> PyFloat(0, 92, 34560),
                 conversion_rate |-> PyFloat(0, 0, 92346),
                 time_last_update_utc |-> PyStr("Fri, 27 Mar 2020 00:00:00 +0000")]],
      [kind |-> "json",
       data |-> [result |-> PyStr("success"), base_code |-> PyStr("USD"),
                 conversion_rates |-> [USD |-> PyInt(0, 1), EUR |-> PyFloat(0, 0, 92346)]]] }

\* What building the prompt and finance_llm.generate_response(prompt) do
Llms ==
    { [raises |-> FALSE, text |-> "Hello! I am Fenny."],
      [raises |-> FALSE, text |-> "Action: lookup Action Input: AAPL "],
      [raises |-> TRUE, text |-> ""] }

Worlds == [market : Markets, http : Https]

\* The world in which every provider answers well
GoodWorld ==
    [market |-> CHOOSE m \in Markets : m.info = AppleInfo,
     http |-> CHOOSE h \in Https : "target_code" \in DOMAIN h.data,
     llm |-> CHOOSE l \in Llms : l.text = "Hello! I am Fenny."]

\* The worlds of a chat request: at most one provider departs from GoodWorld
ChatWorlds ==
    {[GoodWorld EXCEPT !.market = m] : m \in {k \in Markets : DOMAIN k.info \in {{}, InfoKeys}}}
    \cup {[GoodWorld EXCEPT !.http = h] : h \in {k \in Https : "conversion_rates" \notin DOMAIN k.data}}
    \cup {[GoodWorld EXCEPT !.llm = l] : l \in Llms}

\* The worlds that differ in what the named tool can observe
WorldsOf(tool_name) ==
    IF tool_name = "stock_price"
    THEN [market : Markets, http : {CHOOSE h \in Https : h.kind = "network_error"}]
    ELSE IF tool_name = "currency_exchange"
    THEN [market : {CHOOSE m \in Markets : m.raises}, http : Https]
    ELSE [market : {CHOOSE m \in Markets : m.raises},
          http : {CHOOSE h \in Https : h.kind = "network_error"}]

---------------------------------------------------------------------------
(* Start-up: lifespan() *)

\* The construction in which the failure of one tool is fatal to the registry
Construct_m(stock_raises, currency_raises, graph_raises) ==
    IF graph_raises \/ stock_raises \/ currency_raises
    THEN [ok |-> FALSE, tools |-> <<>>]
    ELSE [ok |-> TRUE, tools |-> register_tools(stock_raises, currency_raises)]

\* "Initialize tool registry" of lifespan(): what is left in the global
\* tool_registry.  ToolRegistry() registers the tools whose construction did
\* not raise; when the import or the graph builder raises, the except clause
\* sets the registry (and the graph) to None.
Construct(stock_raises, currency_raises, graph_raises) ==
    IF graph_raises
    THEN [ok |-> FALSE, tools |-> <<>>]
    ELSE [ok |-> TRUE, tools |-> register_tools(stock_raises, currency_raises)]

\* The registries a start-up can leave
Registries == {Construct(a, b, g) : a, b, g \in BOOLEAN}

\* lifespan(): the registry and the graph are both set or both None; the
\* construction of each tool, of the LLM and the credential may be missing.
Startup ==
    /\ \E a, b, g \in BOOLEAN :
           /\ tool_registry = Construct(a, b, g)
           /\ call = [op |-> "startup", stock_raises |-> a, currency_raises |-> b,
                      graph_raises |-> g]
    /\ execution_graph = tool_registry.ok
    /\ finance_llm \in BOOLEAN
    /\ api_key \in BOOLEAN
    /\ sessions = EmptyDict
    /\ uuid_count = 0
    /\ now = 0
    /\ inflight = EmptyDict

---------------------------------------------------------------------------
(* The tool layer on its own: ToolNode, StocksTool, the formatter *)

ToolNames == {"stock_price", "currency_exchange", "nonexistent"}

ToolInputs ==
    { EmptyDict,
      [ticker |-> PyStr("AAPL")],
      [ticker |-> PyStr(" msft ")],
      [ticker |-> PyNone],
      [symbol |-> PyStr("AAPL")],
      [base |-> PyStr("usd")],
      [base |-> PyStr("USD"), target |-> PyStr("EUR"), amount |-> PyFloat(0, 100, 0)],
      [base |-> PyStr("USD"), target |-> PyStr("EUR"), amount |-> PyStr("ten")] }

Tickers == {PyStr("AAPL"), PyStr(" msft "), PyStr("ZZZZ"), PyNone}

MarketCaps ==
    { PyInt(1500000, 0), PyInt(2300, 0), PyInt(0, 500000), PyInt(0, 999), PyInt(0, 0),
      PyInt(0, 999999), PyInt(1, 0), PyInt(999, 999999), PyInt(1000, 0),
      PyInt(999999, 999999), PyInt(1000000, 0), PyInt(2999999, 999999),
      PyInt(1, 234567), PyInt(12345, 678901), PyFloat(0, 999, 99600),
      PyStr("abc"), PyStr("1500"), PyStr(""), NA, PyNone }

ToolsInit ==
    /\ Startup
    /\ tool_registry.ok
    /\ ~finance_llm

\* tool_node.execute_tool(tool_name, tool_input)
ExecuteTool(tool_name, tool_input, world) ==
    /\ call' = [op |-> "execute_tool", tool_name |-> tool_name, tool_input |-> tool_input,
                world |-> world,
                result |-> execute_tool(tool_registry.tools, api_key, tool_name, tool_input, world)]
    /\ UNCHANGED <<tool_registry, execution_graph, finance_llm, api_key, sessions, uuid_count, now, inflight>>

\* StocksTool().run(ticker)
StocksRun(ticker, market) ==
    /\ call' = [op |-> "StocksTool.run", ticker |-> ticker, market |-> market,
                result |-> StocksTool_run(ticker, market)]
    /\ UNCHANGED <<tool_registry, execution_graph, finance_llm, api_key, sessions, uuid_count, now, inflight>>

\* StocksTool()._format_market_cap(market_cap)
FormatMarketCap(market_cap) ==
    /\ call' = [op |-> "_format_market_cap", market_cap |-> market_cap,
                result |-> format_market_cap(market_cap)]
    /\ UNCHANGED <<tool_registry, execution_graph, finance_llm, api_key, sessions, uuid_count, now, inflight>>

\* CurrencyExchangeTool().run(base, target, amount)
CurrencyRun(tool_input, http) ==
    /\ BindError("currency_exchange", tool_input) = ""
    /\ call' = [op |-> "CurrencyExchangeTool.run", tool_input |-> tool_input, http |-> http,
                result |-> RunTool(api_key, "currency_exchange", tool_input,
                                   [market |-> CHOOSE m \in Markets : m.raises, http |-> http])]
    /\ UNCHANGED <<tool_registry, execution_graph, finance_llm, api_key, sessions, uuid_count, now, inflight>>

ToolsNext ==
    \/ \E n \in ToolNames, i \in ToolInputs : \E w \in WorldsOf(n) : ExecuteTool(n, i, w)
    \/ \E t \in Tickers, m \in Markets : StocksRun(t, m)
    \/ \E c \in MarketCaps : FormatMarketCap(c)
    \/ \E i \in ToolInputs, h \in Https : CurrencyRun(i, h)

SpecTools == ToolsInit /\ [][ToolsNext]_vars

---------------------------------------------------------------------------
(* The session store on its own: SessionManager and Session *)

MaxSessions == 2      \* identifiers uuid4 hands out before the model stops creating
MaxTime == 36         \* the clock stops here
TickStep == 12        \* the clock advances in steps of this many hours
MaxFileSessions == 1  \* sessions created where add_files is called directly
MaxAddArg == 2        \* add_files(n) is called with 0 <= n <= MaxAddArg
MaxAddCalls == 3      \* add_files calls per session

\* Every identifier a request may carry: handed out or not
SessionIds == {Uuid(i) : i \in 1..(MaxSessions + 1)}

RECURSIVE Sum(_)
Sum(seq) == IF Len(seq) = 0 THEN 0 ELSE Head(seq) + Sum(Tail(seq))

\* Before lifespan() runs the globals of main.py are None
SessionInit ==
    /\ tool_registry = [ok |-> FALSE, tools |-> <<>>]
    /\ execution_graph = FALSE
    /\ finance_llm = FALSE
    /\ api_key = FALSE
    /\ sessions = EmptyDict
    /\ uuid_count = 0
    /\ now = 0
    /\ inflight = EmptyDict
    /\ call = [op |-> "startup"]

\* Time passes
Tick(d) ==
    /\ d > 0
    /\ now + d <= MaxTime
    /\ now' = now + d
    /\ call' = [op |-> "tick"]
    /\ UNCHANGED <<tool_registry, execution_graph, finance_llm, api_key, sessions, uuid_count, inflight>>

\* session_manager.create_session(), while fewer than max identifiers are out
CreateSession(max) ==
    /\ uuid_count < max
    /\ uuid_count' = uuid_count + 1
    /\ sessions' = create_session(sessions, Uuid(uuid_count + 1), now)
    /\ call' = [op |-> "create_session", session_id |-> Uuid(uuid_count + 1)]
    /\ UNCHANGED <<tool_registry, execution_graph, finance_llm, api_key, now, inflight>>

\* session_manager.get_session(session_id).  call keeps whether the store held
\* the identifier before the call, and with which creation time and last
\* activity.
GetSession(session_id) ==
    /\ sessions' = get_session(sessions, session_id, now).store
    /\ call' = [op |-> "get_session", session_id |-> session_id, at |-> now,
                had |-> session_id \in DOMAIN sessions,
                created_at |-> IF session_id \in DOMAIN sessions
                               THEN sessions[session_id].created_at ELSE 0,
                last_active |-> IF session_id \in DOMAIN sessions
                                THEN sessions[session_id].last_active ELSE 0,
                found |-> get_session(sessions, session_id, now).found]
    /\ UNCHANGED <<tool_registry, execution_graph, finance_llm, api_key, uuid_count, now, inflight>>

\* session_manager.delete_session(session_id)
DeleteSession(session_id) ==
    /\ sessions' = delete_session(sessions, session_id)
    /\ call' = [op |-> "delete_session", session_id |-> session_id,
                had |-> session_id \in DOMAIN sessions]
    /\ UNCHANGED <<tool_registry, execution_graph, finance_llm, api_key, uuid_count, now, inflight>>

\* session_manager.cleanup_expired_sessions()
CleanupExpired ==
    /\ sessions' = cleanup_expired_sessions(sessions, now)
    /\ call' = [op |-> "cleanup_expired_sessions"]
    /\ UNCHANGED <<tool_registry, execution_graph, finance_llm, api_key, uuid_count, now, inflight>>

\* session.add_files(num_files) on a session of the store
AddFiles(session_id, num_files) ==
    /\ session_id \in DOMAIN sessions
    /\ Len(sessions[session_id].added) < MaxAddCalls
    /\ sessions' = [sessions EXCEPT ![session_id] = add_files(@, num_files, now)]
    /\ call' = [op |-> "add_files", session_id |-> session_id, num_files |-> num_files,
                ret |-> add_files(sessions[session_id], num_files, now).file_count]
    /\ UNCHANGED <<tool_registry, execution_graph, finance_llm, api_key, uuid_count, now, inflight>>

\* The store and the clock: creation, lookup, deletion, expiry
SessionNext ==
    \/ Tick(TickStep)
    \/ Tick(SESSION_EXPIRY_HOURS)
    \/ CreateSession(MaxSessions)
    \/ \E id \in SessionIds : GetSession(id)
    \/ \E id \in SessionIds : DeleteSession(id)
    \/ CleanupExpired

SpecSession == SessionInit /\ [][SessionNext]_vars

\* A session and its file counter: add_files called directly, without the
\* checks of the chat handler
FilesNext ==
    \/ CreateSession(MaxFileSessions)
    \/ \E id \in SessionIds, n \in 0..MaxAddArg : AddFiles(id, n)
    \/ \E id \in SessionIds : DeleteSession(id)

SpecFiles == SessionInit /\ [][FilesNext]_vars

\* session.update_activity() on a session of the store
UpdateActivity(session_id) ==
    /\ session_id \in DOMAIN sessions
    /\ sessions' = [sessions EXCEPT ![session_id] = update_activity(@, now)]
    /\ call' = [op |-> "update_activity", session_id |-> session_id]
    /\ UNCHANGED <<tool_registry, execution_graph, finance_llm, api_key, uuid_count, now, inflight>>

\* A session that is used while the clock runs: every call that touches
\* last_active, and the two that purge
ExpiryNext ==
    \/ Tick(TickStep)
    \/ Tick(SESSION_EXPIRY_HOURS)
    \/ CreateSession(MaxFileSessions)
    \/ \E id \in SessionIds : GetSession(id)
    \/ \E id \in SessionIds : UpdateActivity(id)
    \/ \E id \in SessionIds : AddFiles(id, 1)
    \/ CleanupExpired

SpecExpiry == SessionInit /\ [][ExpiryNext]_vars

---------------------------------------------------------------------------
(* The server: /api/chat, /api/clear, /api/health *)

\* Messages whose routing differs
RoutingMessages ==
    { "hi",
      "What is the AAPL stock price?",
      "stock or currency exchange",
      "convert 100 USD to EUR",
      "aapl",
      "trip to europe",
      "META earnings",
      "MSFT in JPY",
      "2.5 GBP in CHF",
      "^ USD to EUR",
      "EUR to USD",
      "exchange rate",
      "   ",
      "" }

\* Uploads: [size, filename]
Uploads ==
    { <<>>,
      <<[size |-> 1024, filename |-> "report.pdf"]>>,
      <<[size |-> 1024, filename |-> "a.txt"], [size |-> 1024, filename |-> "setup.exe"]>>,
      <<[size |-> MAX_FILE_BYTES + 1, filename |-> "big.PDF"]>>,
      <<[size |-> 1, filename |-> "a.txt"], [size |-> 1, filename |-> "b.txt"],
        [size |-> 1, filename |-> "c.xls"], [size |-> 1, filename |-> "d.xlsx"]>> }

\* The requests of the model: every message in every world without a session
\* and without files, one plain message with every session form and upload,
\* and a blank message with a session and at most one file
ChatRequests ==
    [message : RoutingMessages, session_id : {""}, files : {<<>>}, world : ChatWorlds]
    \cup [message : {"hi"}, session_id : SessionIds \cup {""}, files : Uploads,
          world : {GoodWorld}]
    \cup [message : {"   "}, session_id : SessionIds, files : {f \in Uploads : Len(f) <= 1},
          world : {GoodWorld}]

\* The response to a request rejected with an HTTPException
Rejected(message, session_id, files, detail) ==
    [op |-> "chat", message |-> message, session_id |-> session_id, nfiles |-> Len(files),
     files |-> files, status |-> 400, detail |-> detail, response |-> "", file_count |-> 0, sid |-> "",
     ran |-> <<>>, tool_input |-> EmptyDict, tool_result |-> EmptyDict, net |-> 0,
     llm_called |-> FALSE, prompt |-> ""]

\* Respond without the except clause: an exception of the tool branches leaves
\* the handler and the request has no response (status 0)
Respond_m(tb, message, llm, world) ==
    [status |-> IF tb.raised THEN 0 ELSE 200,
     response |-> IF tb.raised THEN ""
                  ELSE Fallback(tb.bot_response, message, llm, world).response,
     ran |-> tb.ran, tool_input |-> tb.tool_input, tool_result |-> tb.tool_result,
     net |-> tb.net,
     llm_called |-> ~tb.raised /\ Fallback(tb.bot_response, message, llm, world).llm_called,
     prompt |-> IF ~tb.raised /\ Fallback(tb.bot_response, message, llm, world).llm_called
                THEN get_finance_prompt(message) ELSE ""]

\* The body of the try block after validation, and the except clause: the
\* status and the reply, given what the tool branches left (tb)
Respond(tb, message, llm, world) ==
    IF tb.raised
    THEN [status |-> 500,
          response |-> Warn \o "I encountered an error processing your request: ",
          ran |-> tb.ran, tool_input |-> tb.tool_input, tool_result |-> tb.tool_result,
          net |-> tb.net, llm_called |-> FALSE, prompt |-> ""]
    ELSE [status |-> 200,
          response |-> Fallback(tb.bot_response, message, llm, world).response,
          ran |-> tb.ran, tool_input |-> tb.tool_input, tool_result |-> tb.tool_result,
          net |-> tb.net,
          llm_called |-> Fallback(tb.bot_response, message, llm, world).llm_called,
          prompt |-> IF Fallback(tb.bot_response, message, llm, world).llm_called
                     THEN get_finance_prompt(message) ELSE ""]

\* Routing and reply of one message, for every message, start-up and world of
\* the model
Responses ==
    [message \in RoutingMessages |-> [world \in ChatWorlds |-> [registry \in Registries |->
        [key \in BOOLEAN |-> [llm \in BOOLEAN |->
            Respond(ToolBranches(message, registry, registry.ok, key, world),
                    message, llm, world)]]]]]

\* The handler from "Get or create session" on: rs is what ResolveSession
\* returned, answer what routing and reply produce
Serve(rs, answer, message, session_id, files) ==
    /\ rs.created => uuid_count < MaxSessions
    /\ uuid_count' = IF rs.created THEN uuid_count + 1 ELSE uuid_count
    /\ IF FileError(rs.store[rs.sid], files) # ""
       THEN /\ sessions' = rs.store
            /\ call' = Rejected(message, session_id, files,
                                FileError(rs.store[rs.sid], files))
       ELSE /\ sessions' = IF Len(files) > 0
                           THEN [rs.store EXCEPT ![rs.sid] = add_files(@, Len(files), now)]
                           ELSE rs.store
            /\ call' = [op |-> "chat", message |-> message, session_id |-> session_id,
                        nfiles |-> Len(files), files |-> files, detail |-> "",
                        file_count |-> get_file_count(sessions'[rs.sid]),
                        sid |-> rs.sid] @@ answer

\* POST /api/chat
Chat(message, session_id, files, world) ==
    /\ UNCHANGED <<tool_registry, execution_graph, finance_llm, api_key, now, inflight>>
    /\ IF MessageError(message) # ""
       THEN /\ call' = Rejected(message, session_id, files, MessageError(message))
            /\ UNCHANGED <<sessions, uuid_count>>
       ELSE Serve(ResolveSession(sessions, session_id, Uuid(uuid_count + 1), now),
                  Responses[message][world][tool_registry][api_key][finance_llm],
                  message, session_id, files)

\* POST /api/clear
ClearConversation(session_id) ==
    /\ IF session_id = ""
       THEN /\ call' = [op |-> "clear", session_id |-> session_id, status |-> 400,
                        detail |-> "Session ID is required", had |-> FALSE]
            /\ UNCHANGED sessions
       ELSE /\ sessions' = delete_session(sessions, session_id)
            /\ call' = [op |-> "clear", session_id |-> session_id, status |-> 200,
                        detail |-> "Conversation cleared",
                        had |-> session_id \in DOMAIN sessions]
    /\ UNCHANGED <<tool_registry, execution_graph, finance_llm, api_key, uuid_count, now, inflight>>

\* GET /api/health
HealthCheck ==
    /\ call' = [op |-> "health", status |-> "healthy",
                tool_count |-> IF tool_registry.ok THEN Len(tool_registry.tools) ELSE 0,
                llm_status |-> IF finance_llm THEN "initialized" ELSE "not initialized",
                tools |-> IF tool_registry.ok THEN tool_registry.tools ELSE <<>>]
    /\ UNCHANGED <<tool_registry, execution_graph, finance_llm, api_key, sessions, uuid_count, now, inflight>>

Init == Startup

Next ==
    \/ \E r \in ChatRequests : Chat(r.message, r.session_id, r.files, r.world)
    \/ \E id \in SessionIds \cup {""} : ClearConversation(id)
    \/ HealthCheck

Spec == Init /\ [][Next]_vars

---------------------------------------------------------------------------
(* Concurrent chat requests on the event loop *)

MaxRequests == 2      \* chat requests the event loop holds at a time

\* The statements of the body of chat(), in their order
Phases == <<"validate", "session", "limit", "types", "add", "reply">>

\* The position of a phase in the body
PhaseAt(name) == CHOOSE i \in 1..Len(Phases) : Phases[i] = name

\* The position after the last phase: the coroutine has returned
Returned == Len(Phases) + 1

\* A body with an await between the limit check and the file checks that
\* precede add_files
AwaitBefore_m(phase) == phase = "types"

\* The coroutine yields to the event loop before this phase: chat() is an
\* async def whose body holds no await
AwaitBefore(phase) == FALSE

\* The coroutine of a request that has run no statement yet
Coroutine(message, session_id, files) ==
    [pc |-> 1, message |-> message, session_id |-> session_id, files |-> files,
     sid |-> "", seen |-> 0, status |-> 0, detail |-> "", response |-> ""]

\* The validation of the message, for every message of the model
MessageErrors == [message \in RoutingMessages |-> MessageError(message)]

\* The file checks that precede add_files, for every upload of the model
FileErrors == [files \in Uploads |-> FirstFileError(files)]

\* raise HTTPException(status_code=400, detail=...)
Raise400(e, detail) ==
    [e EXCEPT !.co.pc = Returned, !.co.status = 400, !.co.detail = detail]

\* One phase of the body, run on e = [co |-> the coroutine, store |-> the
\* session store, uuid |-> the identifiers handed out], at time t; seen is
\* the file count the limit check read
Exec(e, t) ==
    LET co == e.co
        phase == Phases[e.co.pc]
        next == [e EXCEPT !.co.pc = @ + 1]
    IN  IF phase = "validate"
        THEN IF MessageErrors[co.message] # "" THEN Raise400(e, MessageErrors[co.message])
             ELSE next
        ELSE IF phase = "session"
        THEN LET rs == ResolveSession(e.store, co.session_id, Uuid(e.uuid + 1), t)
             IN  [next EXCEPT !.store = rs.store, !.co.sid = rs.sid,
                              !.uuid = IF rs.created THEN @ + 1 ELSE @]
        ELSE IF phase = "limit"
        THEN IF Len(co.files) > 0
                /\ get_file_count(e.store[co.sid]) + Len(co.files) > MAX_FILES
             THEN Raise400(e, "Cannot upload more than 3 files in a conversation")
             ELSE [next EXCEPT !.co.seen = get_file_count(e.store[co.sid])]
        ELSE IF phase = "types"
        THEN IF FileErrors[co.files] # "" THEN Raise400(e, FileErrors[co.files])
             ELSE next
        ELSE IF phase = "add"
        THEN IF Len(co.files) > 0
             THEN [next EXCEPT !.store[co.sid] = add_files(@, Len(co.files), t)]
             ELSE next
        ELSE [next EXCEPT
                 !.co.status = Responses[co.message][GoodWorld][tool_registry][api_key]
                                        [finance_llm].status,
                 !.co.response = Responses[co.message][GoodWorld][tool_registry][api_key]
                                          [finance_llm].response]

RECURSIVE Continue(_, _)
\* The event loop runs the coroutine until it awaits or returns
Continue(e, t) ==
    IF e.co.pc = Returned \/ AwaitBefore(Phases[e.co.pc]) THEN e
    ELSE Continue(Exec(e, t), t)

\* The requests that race: a plain or blank message for the first session or
\* none, with or without files
RaceRequests ==
    [message : {"hi", "   "}, session_id : {Uuid(1), ""}, files : Uploads]

\* The lifespan of the race: everything was constructed
RaceInit ==
    /\ Startup
    /\ Len(tool_registry.tools) = 2
    /\ finance_llm
    /\ api_key

\* The framework has parsed the form of a request and scheduled chat()
Receive(req) ==
    /\ Cardinality(DOMAIN inflight) < MaxRequests
    /\ inflight' = inflight @@ ((Cardinality(DOMAIN inflight) + 1) :>
                                   Coroutine(req.message, req.session_id, req.files))
    /\ call' = [op |-> "receive", request |-> Cardinality(DOMAIN inflight) + 1]
    /\ UNCHANGED <<tool_registry, execution_graph, finance_llm, api_key, sessions, uuid_count, now>>

\* What a run of the coroutine of request r leaves: e is where it stopped
Land(r, e) ==
    /\ inflight' = [inflight EXCEPT ![r] = e.co]
    /\ sessions' = e.store
    /\ uuid_count' = e.uuid
    /\ call' = [op |-> "run", request |-> r, from |-> inflight[r].pc, to |-> e.co.pc,
                status |-> e.co.status, detail |-> e.co.detail,
                others |-> {q \in DOMAIN inflight \ {r} : inflight[q].pc # Returned}]

\* The event loop resumes the coroutine of request r
Run(r) ==
    /\ r \in DOMAIN inflight
    /\ inflight[r].pc # Returned
    /\ Land(r, Continue(Exec([co |-> inflight[r], store |-> sessions, uuid |-> uuid_count],
                              now), now))
    /\ UNCHANGED <<tool_registry, execution_graph, finance_llm, api_key, now>>

RaceNext ==
    \/ \E req \in RaceRequests : Receive(req)
    \/ \E r \in 1..MaxRequests : Run(r)

SpecRace == RaceInit /\ [][RaceNext]_vars

---------------------------------------------------------------------------
(* Properties of the chat and clear handlers, under Spec *)

\* The last request was a chat request that passed validation
Chatted == call.op = "chat" /\ call.status # 400

\* C1: for a chat message routed to the stock branch while the stock tool is
\* registered and its run returns an error-free quote payload, the reply is
\* the formatted quote, containing the payload's price and ticker.
C1_StockQuoteReply ==
    (/\ Chatted
     /\ StockIntent(call.message)
     /\ call.ran = <<"stock_price">>
     /\ Get(call.tool_result, "status", PyNone) = PyStr("success")
     /\ "error" \notin DOMAIN call.tool_result.output
     /\ IsNum(call.tool_result.output.current_price))
    => /\ call.status = 200
       /\ Contains(Str(call.tool_result.output.current_price), call.response)
       /\ Contains(Str(call.tool_result.output.ticker), call.response)

\* C2: stock is checked before currency and the first match wins: for a
\* message that satisfies both the stock-intent and the currency-intent
\* condition only the stock branch runs, and the currency tool is never
\* invoked for that request.
C2_StockBeforeCurrency ==
    (Chatted /\ StockIntent(call.message) /\ CurrencyIntent(call.message))
    => /\ \A i \in 1..Len(call.ran) : call.ran[i] # "currency_exchange"
       /\ "base" \notin DOMAIN call.tool_input
       /\ IF has_tool(tool_registry.tools, "stock_price")
          THEN call.ran = <<"stock_price">>
          ELSE call.ran = <<>> /\ call.response = StockToolDown

C2_Witness ==
    /\ Chatted
    /\ call.message = "stock or currency exchange"
    /\ has_tool(tool_registry.tools, "currency_exchange")
    /\ api_key
    /\ call.ran = <<"stock_price">>

\* The tool of the intent that the message of the last request matched is
\* missing: the registry is None or does not hold it
IntentToolMissing ==
    \/ StockIntent(call.message) /\ ~has_tool(tool_registry.tools, "stock_price")
    \/ /\ ~StockIntent(call.message)
       /\ CurrencyIntent(call.message)
       /\ ~has_tool(tool_registry.tools, "currency_exchange")

\* The replies the LLM branch can give when the LLM is there
LlmReplies == {CleanCompletion(l.text) : l \in {k \in Llms : ~k.raises}} \cup {LlmFailed}

\* C3 as stated: the LLM fallback is invoked whenever no tool branch produced
\* a tool response, also when an intent matched and its tool is unavailable,
\* and the reply is then the LLM's completion, not a canned message.
C3_Original ==
    (Chatted /\ call.status = 200 /\ call.ran = <<>> /\ finance_llm)
    => /\ call.llm_called
       /\ call.response \notin {StockToolDown, CurrencyToolDown}

\* C3 amended: the LLM fallback is invoked exactly when no intent matched and
\* the LLM is there; when an intent matched and its tool is unavailable the
\* reply is the fixed message of that branch and the LLM is not invoked.
C3_FallbackOnlyWithoutIntent ==
    (Chatted /\ call.status = 200)
    => /\ call.llm_called <=>
              (~StockIntent(call.message) /\ ~CurrencyIntent(call.message) /\ finance_llm)
       /\ call.llm_called =>
              /\ call.response \in LlmReplies
              /\ call.prompt = get_finance_prompt(call.message)
              /\ call.ran = <<>>
       /\ IntentToolMissing =>
              /\ call.ran = <<>>
              /\ call.response = IF StockIntent(call.message)
                                 THEN StockToolDown ELSE CurrencyToolDown
       /\ (~StockIntent(call.message) /\ ~CurrencyIntent(call.message) /\ ~finance_llm)
              => call.response = LlmDown

C3_Witness ==
    /\ Chatted
    /\ call.status = 200
    /\ call.message = "What is the AAPL stock price?"
    /\ tool_registry.ok
    /\ ~has_tool(tool_registry.tools, "stock_price")
    /\ finance_llm
    /\ ~call.llm_called
    /\ call.response = StockToolDown

\* C8: clearing is idempotent: delete_session, and the /api/clear request,
\* on an identifier absent from the store succeeds and leaves the store
\* unchanged; deleting the same identifier twice leaves the store that
\* deleting it once leaves; no other session is removed.
C8_ClearIdempotent ==
    [][(call'.op = "clear" /\ call'.session_id # "")
       => /\ call'.status = 200
          /\ call'.session_id \notin DOMAIN sessions => sessions' = sessions
          /\ DOMAIN sessions' = DOMAIN sessions \ {call'.session_id}
          /\ \A id \in DOMAIN sessions' : sessions'[id] = sessions[id]
          /\ delete_session(sessions', call'.session_id) = sessions'
          /\ delete_session(delete_session(sessions, call'.session_id), call'.session_id)
                 = sessions']_vars

\* C12: the chat handler lets no unexpected exception escape: a request with
\* a non-empty message that passes validation ends with a response that
\* carries a reply and a file_count, whatever the tools, the executor or the
\* LLM return or raise (an apology when routing or composition raised), and
\* the session store stays usable for later requests.
C12_NoEscape ==
    Chatted
    => /\ call.status \in {200, 500}
       /\ call.status = 500 =>
              Contains("I encountered an error processing your request", call.response)
       /\ call.sid \in DOMAIN sessions
       /\ call.file_count = get_file_count(sessions[call.sid])
       /\ get_session(sessions, call.sid, now).found
       /\ \A id \in DOMAIN sessions : get_file_count(sessions[id]) \in Nat

\* float() has raised on the amount of a currency request: the reply is the apology
C12_Witness ==
    /\ Chatted
    /\ AmountRaises(call.message)
    /\ call.status = 500
    /\ call.ran = <<>>
    /\ call.sid \in DOMAIN sessions
    /\ call.file_count = 0

\* C13: a chat request with a non-empty message that matches no tool intent,
\* without session identifier and without files, creates exactly one new
\* session in the store, is answered through the fallback path and returns
\* file_count 0.
C13_PlainMessageNewSession ==
    [][(/\ call'.op = "chat"
        /\ Strip(call'.message) # ""
        /\ ~StockIntent(call'.message)
        /\ ~CurrencyIntent(call'.message)
        /\ call'.session_id = ""
        /\ call'.nfiles = 0)
       => /\ call'.status = 200
          /\ call'.sid \notin DOMAIN sessions
          /\ DOMAIN sessions' = DOMAIN sessions \cup {call'.sid}
          /\ \A id \in DOMAIN sessions : sessions'[id] = sessions[id]
          /\ sessions'[call'.sid] = Session(now)
          /\ call'.file_count = 0
          /\ call'.ran = <<>>
          /\ IF finance_llm
             THEN call'.llm_called /\ call'.response \in LlmReplies
             ELSE ~call'.llm_called /\ call'.response = LlmDown]_vars

\* "hi" without a session was answered by the LLM and the store holds the one
\* session made for it
C13_Witness ==
    /\ Chatted
    /\ call.message = "hi"
    /\ call.session_id = ""
    /\ call.nfiles = 0
    /\ call.llm_called
    /\ call.response = "Hello! I am Fenny."
    /\ call.file_count = 0
    /\ DOMAIN sessions = {call.sid}
    /\ uuid_count = 1

\* The message is empty or consists of blanks
Blank(message) == \A i \in 1..Len(message) : SubSeq(message, i, i) = " "

\* C14: a chat request whose message is empty or only whitespace is rejected
\* with a 4xx failure before the router runs: no tool is executed, the LLM is
\* not invoked, and no session is created or modified.
C14_BlankMessageRejected ==
    [][(call'.op = "chat" /\ Blank(call'.message))
       => /\ call'.status \in 400..499
          /\ call'.ran = <<>>
          /\ call'.net = 0
          /\ ~call'.llm_called
          /\ sessions' = sessions
          /\ uuid_count' = uuid_count]_vars

\* A blank message that named a live session and carried a file was refused,
\* and the session has no file
C14_Witness ==
    /\ call.op = "chat"
    /\ call.message = "   "
    /\ call.nfiles = 1
    /\ call.status = 400
    /\ call.detail = "Message cannot be empty"
    /\ call.session_id \in DOMAIN sessions
    /\ get_file_count(sessions[call.session_id]) = 0

\* C15: the construction of the registry tolerates the failure of a tool: when
\* constructing one tool raises the registry is still constructed, that tool
\* is absent (has_tool false, get_tool finds nothing) and every tool whose
\* construction succeeds is registered; after construction no chat, clear or
\* health request changes the registered tools.
C15_RegistryTolerant ==
    /\ []((call.op = "startup" /\ ~call.graph_raises)
          => /\ tool_registry.ok
             /\ has_tool(tool_registry.tools, "stock_price") <=> ~call.stock_raises
             /\ get_tool(tool_registry.tools, "stock_price") <=> ~call.stock_raises
             /\ has_tool(tool_registry.tools, "currency_exchange") <=> ~call.currency_raises
             /\ get_tool(tool_registry.tools, "currency_exchange") <=> ~call.currency_raises)
    /\ [][tool_registry' = tool_registry]_vars

\* The construction of StocksTool raised and the registry holds the other tool
C15_Witness ==
    /\ call.op = "startup"
    /\ call.stock_raises
    /\ ~call.currency_raises
    /\ tool_registry = [ok |-> TRUE, tools |-> <<"currency_exchange">>]

\* The stock branch, or the currency branch, answered the last request
StockTaken == call.ran = <<"stock_price">> \/ call.response = StockToolDown
CurrencyTaken ==
    call.ran = <<"currency_exchange">> \/ call.response = CurrencyToolDown \/ call.status = 500

\* The message names, in any case, a symbol of the list or a keyword
Mentions(symbols, keywords, message) ==
    \/ \E i \in 1..Len(symbols) : Contains(Lower(symbols[i]), Lower(message))
    \/ \E k \in keywords : Contains(k, Lower(message))

\* C16 as stated: detection of known symbols is case-sensitive against the
\* raw message: a message with a ticker or currency code only in lower or
\* mixed case and none of the keywords goes to neither tool branch but to
\* the fallback.
C16_Original ==
    (/\ Chatted
     /\ ~AnyIn(INTENT_TICKERS, call.message)
     /\ ~AnyIn(INTENT_CODES, call.message)
     /\ ~Mentions(<<>>, {"stock", "currency", "exchange"}, call.message))
    => /\ ~StockTaken
       /\ ~CurrencyTaken
       /\ finance_llm => call.llm_called

\* C16 amended: detection of known symbols is case-insensitive (the message
\* is upper-cased before the symbols are sought in it): a message with a
\* ticker of the list in any case, or "stock", goes to the stock branch;
\* otherwise one with a currency code of the list in any case, or "currency"
\* or "exchange", goes to the currency branch; only other messages go to the
\* fallback.
C16_CaseInsensitive ==
    Chatted
    => /\ StockTaken <=> Mentions(INTENT_TICKERS, {"stock"}, call.message)
       /\ CurrencyTaken <=>
              /\ ~Mentions(INTENT_TICKERS, {"stock"}, call.message)
              /\ Mentions(INTENT_CODES, {"currency", "exchange"}, call.message)
       /\ (~StockTaken /\ ~CurrencyTaken) =>
              /\ call.ran = <<>>
              /\ call.llm_called <=> finance_llm

\* "aapl" was answered by the stock tool, asked for AAPL
C16_Witness ==
    /\ Chatted
    /\ call.message = "aapl"
    /\ call.ran = <<"stock_price">>
    /\ call.tool_input = [ticker |-> PyStr("AAPL")]
    /\ ~call.llm_called

\* The list of codes the currency branch scans, in its order
ScanOrder == <<"USD", "EUR", "JPY", "GBP", "CAD", "AUD", "CHF", "CNY", "INR">>

\* The positions in ScanOrder of the codes the upper-cased message contains
Found(message) == {i \in 1..Len(ScanOrder) : Contains(ScanOrder[i], Upper(message))}

\* The least element of a non-empty set of numbers
Least(S) == CHOOSE i \in S : \A j \in S : i <= j

\* C17: for a message routed to the currency branch the matching codes are
\* collected by scanning the list USD, EUR, JPY, GBP, CAD, AUD, CHF, CNY, INR
\* in that order, not in the order of the message; base is the first match,
\* "USD" when there is none; target is the second match, "EUR" when there are
\* fewer than two; the currency tool is invoked with exactly base, target
\* and amount.
C17_CurrencyArguments ==
    (Chatted /\ call.ran = <<"currency_exchange">>)
    => LET found == Found(call.message) IN
       /\ DOMAIN call.tool_input = {"base", "target", "amount"}
       /\ call.tool_input.base =
              PyStr(IF found = {} THEN "USD" ELSE ScanOrder[Least(found)])
       /\ call.tool_input.target =
              PyStr(IF Cardinality(found) < 2 THEN "EUR"
                    ELSE ScanOrder[Least(found \ {Least(found)})])
       /\ call.tool_input.amount.tag = "float"
       /\ call.tool_result.input = call.tool_input

\* "EUR to USD" was converted from USD to EUR: the order of the list
C17_Witness ==
    /\ Chatted
    /\ call.message = "EUR to USD"
    /\ call.ran = <<"currency_exchange">>
    /\ call.tool_input = [base |-> PyStr("USD"), target |-> PyStr("EUR"),
                          amount |-> PyFloat(0, 1, 0)]

\* C18: on the fallback path the prompt given to the LLM embeds the persona
\* and the conversation of the session so far: when a session has already
\* exchanged a message and a reply, these appear in the prompt of its next
\* request, before the current message.
C18_PromptHasHistory ==
    [][(/\ Chatted
        /\ call.status = 200
        /\ call'.op = "chat"
        /\ call'.status = 200
        /\ call'.session_id = call.sid
        /\ call'.sid = call.sid
        /\ call'.llm_called)
       => Contains(call.message \o " [/INST]\n" \o call.response, call'.prompt)]_vars

\* The extensions an upload may have: pdf, xls, xlsx, txt
AllowedExtensions == {"pdf", "xls", "xlsx", "txt"}

\* The uploads of n >= 1 files, each with an allowed extension and a size of
\* at most 5 MB
AcceptableUploads ==
    {files \in Uploads :
        /\ Len(files) >= 1
        /\ \A i \in 1..Len(files) :
               /\ files[i].size <= MAX_FILE_BYTES
               /\ Lower(AfterLastDot(files[i].filename)) \in AllowedExtensions}

\* The file count of the session a chat request with this identifier works
\* on: a session of the store has its count, a new session has none
CountBefore(session_id) ==
    IF session_id \in DOMAIN sessions THEN sessions[session_id].file_count ELSE 0

\* C21: a chat request with a valid message that carries n >= 1 files, each
\* with an allowed extension (pdf, xls, xlsx, txt) and size at most 5 MB, on a
\* session whose file count c satisfies c + n <= 3, is accepted, raises that
\* session's file count to c + n and returns file_count = c + n.
C21_UploadAccepted ==
    [][(/\ call'.op = "chat"
        /\ ~Blank(call'.message)
        /\ call'.files \in AcceptableUploads
        /\ CountBefore(call'.session_id) + call'.nfiles <= MAX_FILES)
       => (/\ call'.status = 200
           /\ call'.file_count = CountBefore(call'.session_id) + call'.nfiles
           /\ sessions'[call'.sid].file_count
                  = CountBefore(call'.session_id) + call'.nfiles)]_vars

\* C22: in every state reachable by chat and clear requests, every session of
\* the store has a file count between 0 and 3 inclusive.
C22_FileCountBounded ==
    \A id \in DOMAIN sessions :
        sessions[id].file_count >= 0 /\ sessions[id].file_count <= MAX_FILES

\* A chat request with four files for a session of the store has met the count
\* check, after an earlier session was cleared
C22_Witness ==
    /\ call.op = "chat"
    /\ call.nfiles = MAX_FILES + 1
    /\ call.session_id \in DOMAIN sessions
    /\ call.detail = "Cannot upload more than 3 files in a conversation"
    /\ uuid_count > Cardinality(DOMAIN sessions)

\* C23: a chat request rejected with a 4xx failure (empty message, too many
\* files, oversize file, disallowed file type) leaves the session store
\* exactly as it was: no session is created, none is removed and no file
\* count changes.
C23_RejectionLeavesStore ==
    [][(call'.op = "chat" /\ call'.status = 400) => sessions' = sessions]_vars

\* /api/clear has succeeded on an identifier that was handed out and is absent
\* by now, and the other session is still there
C8_Witness ==
    /\ call.op = "clear"
    /\ call.status = 200
    /\ call.session_id = Uuid(1)
    /\ ~call.had
    /\ uuid_count = 2
    /\ DOMAIN sessions = {Uuid(2)}

---------------------------------------------------------------------------
(* Properties of the event loop, under SpecRace *)

\* Request r passed the limit check with files and its update of the file
\* counter is not applied yet
PassedCheck(r) ==
    /\ r \in DOMAIN inflight
    /\ Len(inflight[r].files) > 0
    /\ inflight[r].pc \in {PhaseAt("types"), PhaseAt("add")}

\* Two requests of one session both passed the limit check against the same
\* count and neither update is applied
BothPassed ==
    \E r, q \in DOMAIN inflight :
        /\ r # q
        /\ PassedCheck(r) /\ PassedCheck(q)
        /\ inflight[r].sid = inflight[q].sid
        /\ inflight[r].seen = inflight[q].seen

\* The run the event loop just gave a request took it from the start of the
\* body past the limit check, with files
RanPastCheck ==
    /\ call.op = "run" /\ call.from = 1
    /\ Len(inflight[call.request].files) > 0
    /\ call.detail \notin {"Message cannot be empty",
                           "Cannot upload more than 3 files in a conversation"}

\* C20 as stated: the limit check and the add_files update of one chat request
\* are not atomic with respect to another request: a request that passed the
\* limit check hands the event loop back before its update of the file
\* counter is applied, so that a second request can pass the check against
\* the same count
C20_Original == RanPastCheck => PassedCheck(call.request)

\* C20: the limit check and the update of the file counter of one chat request
\* run without yielding to the event loop: no request is ever suspended
\* inside the body, so no other request runs between the check and the update
\* and no two requests pass the check against the same count with neither
\* update applied
C20_CheckAndUpdateAtomic ==
    /\ \A r \in DOMAIN inflight : inflight[r].pc \in {1, Returned}
    /\ ~BothPassed
    /\ call.op = "run" => call.from = 1 /\ call.to = Returned

\* Two requests with files for the first session are on the event loop; the
\* first has run, passed the limit check against count 0 and was rejected by
\* the file checks, while the second has not run a statement
C20_Witness ==
    /\ call.op = "run" /\ call.request = 1 /\ call.others = {2}
    /\ inflight[1].pc = Returned /\ inflight[2].pc = 1
    /\ inflight[1].sid = Uuid(1) /\ inflight[2].session_id = Uuid(1)
    /\ Len(inflight[1].files) > 0 /\ Len(inflight[2].files) > 0
    /\ inflight[1].seen = 0 /\ inflight[1].status = 400
    /\ inflight[1].detail # "Cannot upload more than 3 files in a conversation"

---------------------------------------------------------------------------
(* Properties of the tool layer, under SpecTools *)

\* The comma-joined names of the registered tools, stock_price first
AvailableTools ==
    IF has_tool(tool_registry.tools, "stock_price")
    THEN IF has_tool(tool_registry.tools, "currency_exchange")
         THEN "stock_price, currency_exchange" ELSE "stock_price"
    ELSE IF has_tool(tool_registry.tools, "currency_exchange")
         THEN "currency_exchange" ELSE ""

\* C4: execute_tool with a tool name that is not in the registry returns the
\* error envelope {status: "error", message: "Tool '<name>' not found. Available
\* tools: <registered names, comma-joined, in registration order>"} and calls
\* no tool's run; with both tools registered the list is
\* "stock_price, currency_exchange".
C4_UnknownToolEnvelope ==
    (call.op = "execute_tool" /\ ~has_tool(tool_registry.tools, call.tool_name)) =>
        /\ ~call.result.raised
        /\ call.result.ran = <<>>
        /\ call.result.ret =
               [status |-> PyStr("error"),
                message |-> PyStr("Tool '" \o call.tool_name
                                  \o "' not found. Available tools: " \o AvailableTools)]

C4_Witness ==
    /\ call.op = "execute_tool"
    /\ call.tool_name = "nonexistent"
    /\ Len(tool_registry.tools) = 2
    /\ call.result.ret.message =
           PyStr("Tool 'nonexistent' not found. Available tools: stock_price, currency_exchange")

\* C5: for a registered tool and any argument map execute_tool never raises;
\* when the call of run raises, the result is an error envelope with status
\* "error", the tool name and the exception text; when run returns v, the
\* result is exactly {status: "success", tool: name, input: arguments, output: v}.
C5_ExecutorBarrier ==
    (call.op = "execute_tool" /\ has_tool(tool_registry.tools, call.tool_name)) =>
        /\ ~call.result.raised
        /\ call.result.ran = <<call.tool_name>>
        /\ IF BindError(call.tool_name, call.tool_input) # ""
           THEN /\ DOMAIN call.result.ret = {"status", "tool", "message"}
                /\ call.result.ret.status = PyStr("error")
                /\ call.result.ret.tool = PyStr(call.tool_name)
                /\ call.result.ret.message =
                       PyStr("Error executing tool: "
                             \o BindError(call.tool_name, call.tool_input))
           ELSE /\ DOMAIN call.result.ret = {"status", "tool", "input", "output"}
                /\ call.result.ret.status = PyStr("success")
                /\ call.result.ret.tool = PyStr(call.tool_name)
                /\ call.result.ret.input = call.tool_input
                /\ call.result.ret.output =
                       RunTool(api_key, call.tool_name, call.tool_input, call.world).ret

C5_Witness ==
    /\ call.op = "execute_tool"
    /\ call.tool_name = "stock_price"
    /\ has_tool(tool_registry.tools, "stock_price")
    /\ call.tool_input = EmptyDict
    /\ ~call.result.raised
    /\ call.result.ret.status = PyStr("error")

\* The fields of a quote payload
QuoteFields == {"ticker", "name", "current_price", "currency", "market_open", "day_range",
                "volume", "market_cap", "pe_ratio", "dividend_yield"}

\* C9: for a ticker for which the provider has no data (it raises, or it
\* returns an info record without quote data), StocksTool.run returns a
\* payload with an error key and no quote fields.
C9_NoDataIsError ==
    (call.op = "StocksTool.run" /\ NoData(call.market)) =>
        /\ "error" \in DOMAIN call.result
        /\ DOMAIN call.result \cap QuoteFields = {}

\* C10 as stated: 1_500_000_000_000 -> "$1.50T", 2_300_000_000 -> "$2.30B",
\* 500_000 -> "$0.50M", 999 -> "$999.00", a value that is no number -> itself.
C10_Original ==
    call.op = "_format_market_cap" =>
        /\ call.market_cap = PyInt(1500000, 0) => call.result = "$1.50T"
        /\ call.market_cap = PyInt(2300, 0) => call.result = "$2.30B"
        /\ call.market_cap = PyInt(0, 500000) => call.result = "$0.50M"
        /\ call.market_cap = PyInt(0, 999) => call.result = "$999.00"
        /\ call.market_cap = PyStr("abc") => call.result = "abc"

\* C10 amended: 1_500_000_000_000 -> "$1.50T", 2_300_000_000 -> "$2.30B",
\* 500_000 -> "$500000.00" (below 10^6 there is no suffix), 999 -> "$999.00",
\* a string that is no number -> itself.
C10_MarketCapFormat ==
    call.op = "_format_market_cap" =>
        /\ call.market_cap = PyInt(1500000, 0) => call.result = "$1.50T"
        /\ call.market_cap = PyInt(2300, 0) => call.result = "$2.30B"
        /\ call.market_cap = PyInt(0, 500000) => call.result = "$500000.00"
        /\ call.market_cap = PyInt(0, 999) => call.result = "$999.00"
        /\ call.market_cap = PyStr("abc") => call.result = "abc"

C10_Witness ==
    /\ call.op = "_format_market_cap"
    /\ call.market_cap = PyInt(0, 500000)
    /\ call.result = "$500000.00"

\* C11: with no provider credential configured CurrencyExchangeTool.run
\* returns an error envelope (status "error" and an explanatory message) for
\* every base, target and amount, and makes no network call to the provider.
C11_NoCredentialNoNetwork ==
    (call.op = "CurrencyExchangeTool.run" /\ ~api_key)
    => /\ DOMAIN call.result.ret = {"status", "message"}
       /\ call.result.ret.status = PyStr("error")
       /\ call.result.ret.message.tag = "str"
       /\ Contains("API key not configured", call.result.ret.message.s)
       /\ call.result.net = 0

C11_Witness ==
    /\ call.op = "CurrencyExchangeTool.run"
    /\ ~api_key
    /\ {"base", "target", "amount"} \subseteq DOMAIN call.tool_input
    /\ "target_code" \in DOMAIN call.http.data
    /\ call.result.ret.status = PyStr("error")
    /\ call.result.net = 0

---------------------------------------------------------------------------
(* Properties of the session store, under SpecSession and SpecFiles *)

\* The identifiers uuid4 has handed out so far
HandedOut == {Uuid(i) : i \in 1..uuid_count}

\* C6: for a session created at T0 with expiry H = SESSION_EXPIRY_HOURS,
\* get_session at a time strictly before T0 + H returns that session;
\* get_session at a time strictly after T0 + H returns not-found and removes
\* the session from the store, so that a later lookup also finds nothing.
C6_ExpiryBoundary ==
    /\ (call.op = "get_session" /\ call.had) =>
           /\ call.at < call.created_at + SESSION_EXPIRY_HOURS =>
                  /\ call.found
                  /\ call.session_id \in DOMAIN sessions
                  /\ sessions[call.session_id].created_at = call.created_at
           /\ call.at > call.created_at + SESSION_EXPIRY_HOURS =>
                  /\ ~call.found
                  /\ call.session_id \notin DOMAIN sessions
                  /\ ~get_session(sessions, call.session_id, now).found
    /\ DOMAIN sessions \subseteq HandedOut

C6_Witness ==
    /\ call.op = "get_session"
    /\ call.had
    /\ call.at > call.created_at + SESSION_EXPIRY_HOURS
    /\ ~call.found
    /\ call.session_id \notin DOMAIN sessions

\* C19 as stated: a session is accessible only strictly before
\* created_at + H: get_session at a time t >= created_at + H, t = created_at + H
\* included, returns not-found.
C19_Original ==
    (call.op = "get_session" /\ call.had /\ call.at >= call.created_at + SESSION_EXPIRY_HOURS)
    => /\ ~call.found
       /\ call.session_id \notin DOMAIN sessions

\* C19 amended: a session is accessible up to and including created_at + H:
\* get_session at a time t returns the session exactly when t <= created_at + H,
\* also at t = created_at + H; at t > created_at + H it returns not-found and
\* purges the session, which is from then on indistinguishable from one that
\* never existed.
C19_AccessibleThroughExpiry ==
    call.op = "get_session"
    => /\ call.found <=> (call.had /\ call.at <= call.created_at + SESSION_EXPIRY_HOURS)
       /\ call.found =>
              /\ call.session_id \in DOMAIN sessions
              /\ sessions[call.session_id].created_at = call.created_at
              /\ sessions[call.session_id].last_active = call.at
       /\ ~call.found =>
              /\ call.session_id \notin DOMAIN sessions
              /\ get_session(sessions, call.session_id, now) =
                     [found |-> FALSE, store |-> sessions]

\* get_session has returned a session exactly H after its creation
C19_Witness ==
    /\ call.op = "get_session"
    /\ call.had
    /\ call.at = call.created_at + SESSION_EXPIRY_HOURS
    /\ call.found
    /\ call.session_id \in DOMAIN sessions

\* C7: add_files accumulates without an upper bound of its own: after
\* add_files(n1), ..., add_files(nk) on a new session get_file_count() is
\* n1 + ... + nk (2 then 1 gives 3), and add_files returns the new total.
C7_FilesAccumulate ==
    /\ \A id \in DOMAIN sessions : get_file_count(sessions[id]) = Sum(sessions[id].added)
    /\ call.op = "add_files" => call.ret = Sum(sessions[call.session_id].added)

C7_Witness ==
    /\ call.op = "add_files"
    /\ sessions[call.session_id].added = <<2, 1, 2>>
    /\ get_file_count(sessions[call.session_id]) = 5
    /\ call.ret = 5

---------------------------------------------------------------------------
(* Properties of a session in use, under SpecExpiry *)

\* C24: the expiry instant of a session is fixed at creation: created_at is
\* set to the time of create_session and no get_session, update_activity,
\* add_files or cleanup call changes it while the session is in the store; a
\* get_session made after created_at + SESSION_EXPIRY_HOURS returns nothing
\* and purges the session, and cleanup_expired_sessions keeps exactly the
\* sessions with now <= created_at + SESSION_EXPIRY_HOURS, whatever
\* last_active is.
C24_ExpiryFixedAtCreation ==
    [][/\ \A id \in DOMAIN sessions \cap DOMAIN sessions' :
              sessions'[id].created_at = sessions[id].created_at
       /\ call'.op = "create_session" => sessions'[call'.session_id].created_at = now
       /\ (call'.op = "get_session" /\ call'.had
              /\ call'.at > call'.created_at + SESSION_EXPIRY_HOURS)
          => ~call'.found /\ call'.session_id \notin DOMAIN sessions'
       /\ call'.op = "cleanup_expired_sessions"
          => DOMAIN sessions' = {id \in DOMAIN sessions :
                                   now <= sessions[id].created_at + SESSION_EXPIRY_HOURS}
      ]_vars

\* A session that was active after its creation, and less than the expiry
\* period ago, has been purged by get_session
C24_Witness ==
    /\ call.op = "get_session"
    /\ call.had /\ ~call.found
    /\ call.last_active > call.created_at
    /\ call.at <= call.last_active + SESSION_EXPIRY_HOURS
    /\ call.at > call.created_at + SESSION_EXPIRY_HOURS
    /\ call.session_id \notin DOMAIN sessions

=============================================================================
